---- MODULE Spec2Model ----
(***************************************************************************)
(* A model of the crawl pipeline of web_crawler_project:                   *)
(*   - crawler/crawler.py : WebCrawler (robots cache, per-domain delay,    *)
(*     HTTP request, headless fallback)                                    *)
(*   - api/app.py         : crawl_url / process_url (job submission, the   *)
(*     retry loop with backoff, the result store)                          *)
(*                                                                         *)
(* Time is counted in ticks of half a second.  Absolute time is not kept:  *)
(* the model keeps, for every instant the code remembers, how long ago it  *)
(* was (an age), saturated at AgeCap, which no comparison in the code can  *)
(* tell from a larger age.  Sleeps last exactly as long as asked and a     *)
(* network exchange takes no time: the shortest the code can observe.      *)
(*                                                                         *)
(* process_url is a coroutine without any await: the event loop runs it    *)
(* from its first line to its last without running any other handler.      *)
(* `running` is the task the event loop is executing (0: the loop is       *)
(* free).  The steps of one process_url call are separate actions so that  *)
(* the sleeps and requests inside it are visible states.                   *)
(***************************************************************************)
EXTENDS Integers, Sequences, FiniteSets, TLC

\* ---------------------------------------------------------------- bounds
\* jobs submitted to the API in Spec
MaxJobs == 2
\* jobs submitted one after the other in SpecVisits
MaxVisits == 3
\* direct calls of crawl() in SpecCrawl
MaxCalls == 2

\* ------------------------------------------------------ program constants
\* CRAWLER_DELAY, default "2.0" seconds, in ticks
delay == 4
\* max_attempts = 3
max_attempts == 3
\* crawler.py line 31: delay=1.0, in ticks
DefaultDelay == 2

Jobs == 1..MaxJobs
Visits == 1..MaxVisits
Calls == 1..MaxCalls
Tasks == Jobs \cup Visits \cup Calls

\* ------------------------------------------------------------------ URLs
Url(s, n, p) == [scheme |-> s, netloc |-> n, path |-> p]
Urls ==
  { Url("https", "site.example", "/search"),
    Url("https", "site.example", "/"),
    Url("https", "other.example", "/search") }
NoUrl == Url("", "", "")

\* urlparse(url).netloc: the key of domain_last_accessed
netloc(u) == u.netloc
\* f"{parsed_url.scheme}://{parsed_url.netloc}": the key of robots_cache
base_url(u) == <<u.scheme, u.netloc>>

Netlocs == { netloc(u) : u \in Urls }
BaseUrls == { base_url(u) : u \in Urls }

\* The robots.txt each site serves, as the set of paths it disallows for all
\* agents: "Disallow: /search" on site.example, nothing on other.example
\* (which has a /search page of its own).
RobotsTxt(b) == IF b = <<"https", "site.example">> THEN {"/search"} ELSE {}

\* RobotExclusionRulesParser.parse(text): replaces the rule set of the parser
ParseRules(text) == text
EmptyRules == {}
\* RobotExclusionRulesParser.is_allowed(user_agent, url)
is_allowed(rules, u) == u.path \notin rules

\* --------------------------------------------------------------- results
\* crawl() returns a dict; the model keeps what process_url reads of it:
\* whether it has "error", and the message.
None == "None"
Success == "html_content"
ErrRobots == "URL disallowed by robots.txt"
ErrHttp(code) == "HTTP error: " \o code
ErrNotHtml == "Not HTML content"
ErrTransport == "RequestException"
ErrUnexpected == "Exception"
\* the exception of a crawl() call that raised
Raised == "raised by crawl()"
\* _fallback_playwright, line 325
ErrPlaywright == "Playwright fallback failed"
\* _fallback_playwright, lines 314-321: the rendered page
Rendered == "rendered html_content"

HttpCodes == {"403", "404", "429", "500"}
\* what one HTTP GET of a page can do
HttpOutcomes == {"200 text/html", "200 other", "transport", "unexpected"} \cup HttpCodes
\* what the GET of robots.txt can do
RobotsOutcomes == {"200", "404", "exception"}
\* what the headless render can do: the page, a non-200 status, an exception
PlaywrightOutcomes == {"200", "500", "exception"}
\* what classify_page can do: a classification, or its own error result
ClassifyOutcomes == {"classified", "error"}

\* random.uniform(0.5, 2.5) seconds: the two ends of the range
JitterTicks == {1, 5}
\* random.uniform(1, 3) seconds: the two ends of the range
BackoffJitterTicks == {2, 6}

Never == -1
\* no HTTP request made yet in this crawl() call
NoRequest == "no request"
AgeCap == delay

VARIABLES
  \* WebCrawler fields
  respect_robots, use_fallback, playwright_available,
  \* whether an asyncio event loop runs in the thread that calls crawl()
  loop_running,
  \* app.py: classifier_available
  classifier_available,
  \* WebCrawler fields delay (in ticks) and browser_emulation, and the
  \* arguments the constructor was called with
  crawler_delay, browser_emulation, ctor,
  \* the answer of the last GET /result/{request_id}
  poll_response,
  robots_cache, robots_parser, domain_last_accessed,
  \* app.py module state
  results_cache, running,
  \* one process_url call per task: arguments, locals, position
  pc, url, arg_respect, request_id, attempt, crawl_result,
  \* request_id generation: int(time.time()) relative to earlier submissions
  id_stamp, id_fresh, phase,
  \* observation (not program state)
  robots_fetches, robots_ok, since_request, n_crawls, waited, all_transport,
  \* observation: what the HTTP request of the current crawl() call did
  http_out,
  \* observation: how the last finished attempt of the job ended
  last_outcome

\* what no step of a crawl or of a job assigns
settings == <<use_fallback, loop_running, classifier_available, crawler_delay,
              browser_emulation, ctor>>
config == <<settings, playwright_available, poll_response>>
robots == <<robots_cache, robots_parser, robots_fetches, robots_ok>>
ages == <<domain_last_accessed, since_request>>
args == <<url, arg_respect, request_id>>
idVars == <<id_stamp, id_fresh, phase>>
vars == <<respect_robots, config, robots, ages, results_cache, running, pc, args,
          attempt, crawl_result, idVars, n_crawls, waited, all_transport, http_out,
          last_outcome>>

Min(a, b) == IF a < b THEN a ELSE b

\* ------------------------------------------------- WebCrawler.__init__
\* crawler.py line 31: the parameters of the constructor that the model keeps
ArgNames == {"delay", "respect_robots", "browser_emulation", "use_fallback"}
\* the delays a caller passes: 1.0 and 2.0 seconds, in ticks
DelayValues == {DefaultDelay, delay}

\* a call of the constructor: the arguments given, by name
Given(all, S) == [n \in S |-> all[n]]

\* faulty variant: the default of the API's environment for every parameter
ArgEnvDefault(a, name, default) ==
  IF name \in DOMAIN a THEN a[name] ELSE IF name = "delay" THEN delay ELSE default

\* a parameter of the call: the argument if given, else the default
Arg(a, name, default) == IF name \in DOMAIN a THEN a[name] ELSE default

\* crawler.py lines 31 and 40-44: the fields of WebCrawler(**a)
WebCrawler(a) ==
  [delay |-> Arg(a, "delay", DefaultDelay),
   respect_robots |-> Arg(a, "respect_robots", TRUE),
   browser_emulation |-> Arg(a, "browser_emulation", TRUE),
   use_fallback |-> Arg(a, "use_fallback", TRUE)]

\* the crawler is the object the call WebCrawler(**a) made
Constructed(a) ==
  /\ ctor = a
  /\ crawler_delay = WebCrawler(a).delay
  /\ respect_robots = WebCrawler(a).respect_robots
  /\ browser_emulation = WebCrawler(a).browser_emulation
  /\ use_fallback = WebCrawler(a).use_fallback

\* no GET /result has been answered
NoResponse == [request_id |-> <<0, NoUrl>>, status |-> "no response"]

\* ------------------------------------------------------------------ time
\* every remembered instant is d ticks older
Aged(f, d) ==
  [k \in DOMAIN f |-> IF f[k] = Never THEN Never ELSE Min(f[k] + d, AgeCap)]

\* d ticks pass.  int(time.time()) changes when a second boundary is crossed,
\* and then no id issued so far can be issued again.
Elapse(d) ==
  /\ domain_last_accessed' = Aged(domain_last_accessed, d)
  /\ since_request' = Aged(since_request, d)
  /\ phase' = (phase + d) % 2
  /\ id_fresh' = IF phase + d >= 2 THEN [u \in Urls |-> FALSE] ELSE id_fresh
  /\ UNCHANGED id_stamp

\* ------------------------------------------------------------------ Init
\* crawler.py lines 45-47 and app.py line 74: nothing fetched, nothing
\* requested, nothing stored, no call in progress
InitRest ==
  /\ robots_cache = {}
  /\ robots_parser = EmptyRules
  /\ domain_last_accessed = [n \in Netlocs |-> Never]
  /\ results_cache = <<>>
  /\ running = 0
  /\ pc = [t \in Tasks |-> "idle"]
  /\ url = [t \in Tasks |-> NoUrl]
  /\ arg_respect = [t \in Tasks |-> TRUE]
  /\ request_id = [t \in Tasks |-> <<0, NoUrl>>]
  /\ attempt = [t \in Tasks |-> 0]
  /\ crawl_result = [t \in Tasks |-> None]
  /\ id_stamp = [u \in Urls |-> 0]
  /\ id_fresh = [u \in Urls |-> FALSE]
  /\ phase = 0
  /\ robots_fetches = [b \in BaseUrls |-> 0]
  /\ robots_ok = [b \in BaseUrls |-> FALSE]
  /\ since_request = [n \in Netlocs |-> Never]
  /\ n_crawls = [t \in Tasks |-> 0]
  /\ waited = [t \in Tasks |-> 0]
  /\ all_transport = [t \in Tasks |-> TRUE]
  /\ http_out = [t \in Tasks |-> NoRequest]
  /\ last_outcome = [t \in Tasks |-> None]
  /\ poll_response = NoResponse

\* app.py lines 36-42: every parameter is passed, read from the environment;
\* the defaults of the environment, with RESPECT_ROBOTS giving r
EnvArgs(r) ==
  [delay |-> delay, respect_robots |-> r, browser_emulation |-> TRUE,
   use_fallback |-> TRUE]

\* app.py lines 21-26 and 36-74: the crawler as constructed from the
\* environment defaults, the classifier imported or not, an empty result
\* store, and the server's event loop running.  Every job sets
\* respect_robots before it reads it (line 145).
Init ==
  /\ Constructed(EnvArgs(TRUE))
  /\ playwright_available = TRUE
  /\ loop_running = TRUE
  /\ classifier_available \in BOOLEAN
  /\ InitRest

\* ------------------------------------------------------- api/app.py: submit
\* request_id = f"req_{int(time.time())}_{hash(crawl_request.url)}": the same
\* url in the same second gives the same id
NewStamp(u) == IF id_fresh[u] THEN id_stamp[u] ELSE id_stamp[u] + 1

\* results_cache[k] = rec
Put(cache, k, rec) ==
  [x \in DOMAIN cache \cup {k} |-> IF x = k THEN rec ELSE cache[x]]

\* POST /crawl, lines 81-107; tasks are numbered in the order of submission
crawl_url(t, u, r) ==
  /\ running = 0
  /\ pc[t] = "idle"
  /\ \A s \in Tasks : s < t => pc[s] # "idle"
  /\ LET id == <<NewStamp(u), u>> IN
       /\ request_id' = [request_id EXCEPT ![t] = id]
       /\ results_cache' = Put(results_cache, id, [status |-> "processing", url |-> u])
       /\ id_stamp' = [id_stamp EXCEPT ![u] = NewStamp(u)]
       /\ id_fresh' = [id_fresh EXCEPT ![u] = TRUE]
  /\ pc' = [pc EXCEPT ![t] = "queued"]
  /\ url' = [url EXCEPT ![t] = u]
  /\ arg_respect' = [arg_respect EXCEPT ![t] = r]
  /\ UNCHANGED <<respect_robots, config, robots, ages, running, attempt,
                 crawl_result, phase, n_crawls, waited, all_transport, http_out,
                 last_outcome>>

\* half a second passes while the event loop is free
Idle ==
  /\ running = 0
  /\ Elapse(1)
  /\ UNCHANGED <<respect_robots, config, robots, results_cache, running, pc, args,
                 attempt, crawl_result, n_crawls, waited, all_transport, http_out,
                 last_outcome>>

\* ------------------------------------------------- api/app.py: process_url
\* faulty variant: the task leaves the crawler's flag as the last job set it
RobotsSettingKept(t) == respect_robots

\* line 145: crawler.respect_robots = respect_robots, the task's argument
RobotsSetting(t) == arg_respect[t]

\* faulty variant: a background task starts while another one is in progress
EventLoopFreeAlways == TRUE

\* process_url, lines 138-229, holds no await: once a background task has
\* started, the event loop takes up another one only after it has ended
EventLoopFree == running = 0

\* the event loop starts the background task; lines 143-150
StartTask(t) ==
  /\ EventLoopFree
  /\ pc[t] = "queued"
  /\ running' = t
  /\ respect_robots' = RobotsSetting(t)
  /\ attempt' = [attempt EXCEPT ![t] = 0]
  /\ crawl_result' = [crawl_result EXCEPT ![t] = None]
  /\ pc' = [pc EXCEPT ![t] = "loop"]
  /\ UNCHANGED <<config, robots, ages, results_cache, args, idVars, n_crawls, waited,
                 all_transport, http_out,
                 last_outcome>>

\* faulty variant: one iteration too many
LoopContinuesInclusive(a) == a <= max_attempts

\* line 152: while attempt < max_attempts
LoopContinues(a) == a < max_attempts

\* line 152, the loop test, and line 155, the call of crawler.crawl(url)
LoopTest(t) ==
  /\ running = t
  /\ pc[t] = "loop"
  /\ IF LoopContinues(attempt[t])
       THEN /\ pc' = [pc EXCEPT ![t] = "is_crawlable"]
            /\ n_crawls' = [n_crawls EXCEPT ![t] = @ + 1]
            /\ last_outcome' = [last_outcome EXCEPT ![t] = None]
       ELSE /\ pc' = [pc EXCEPT ![t] = "final"]
            /\ UNCHANGED <<n_crawls, last_outcome>>
  /\ waited' = [waited EXCEPT ![t] = 0]
  /\ UNCHANGED <<respect_robots, config, robots, ages, results_cache, running, args,
                 attempt, crawl_result, idVars, all_transport, http_out>>

\* ------------------------------------------------ crawler/crawler.py: robots
\* _get_robots_parser, line 85: if base_url in self.robots_cache
CacheHit(b) == b \in robots_cache

\* _get_robots_parser, lines 90-107: what the one parser object holds after
\* the GET of robots.txt ended with `out`
RulesAfterFetch(b, out) ==
  IF out = "200" THEN ParseRules(RobotsTxt(b)) ELSE ParseRules(EmptyRules)

\* faulty variant: the entry is stored only when robots.txt was served
CacheAfterFetchOn200(b, out) ==
  IF out = "200" THEN robots_cache \cup {b} ELSE robots_cache

\* _get_robots_parser, lines 99 and 106: the entry is stored on every path
CacheAfterFetch(b, out) == robots_cache \cup {b}

\* faulty variant: the flag is not consulted
SkipsRobotsNever == FALSE

\* _is_crawlable, line 111: if not self.respect_robots: return True
SkipsRobots == ~respect_robots

\* _is_crawlable (lines 109-115) with _get_robots_parser (79-107) inside it.
\* Every entry of robots_cache is the same object, self.robots_parser, so the
\* rules consulted are the ones parsed last, for whichever origin.
\* `raises`: parser.is_allowed raises, which nothing in crawl() catches.
IsCrawlable(t, out, raises) ==
  /\ running = t
  /\ pc[t] = "is_crawlable"
  /\ IF SkipsRobots
       THEN /\ out = "200" /\ ~raises
            /\ pc' = [pc EXCEPT ![t] = "delay"]
            /\ UNCHANGED <<robots, crawl_result, all_transport>>
       ELSE LET b == base_url(url[t])
                hit == CacheHit(b)
                rules == IF hit THEN robots_parser ELSE RulesAfterFetch(b, out)
            IN
            /\ hit => out = "200"
            /\ robots_parser' = rules
            /\ robots_cache' = IF hit THEN robots_cache ELSE CacheAfterFetch(b, out)
            /\ robots_fetches' = IF hit THEN robots_fetches
                                 ELSE [robots_fetches EXCEPT ![b] = @ + 1]
            /\ robots_ok' = IF hit THEN robots_ok
                            ELSE [robots_ok EXCEPT ![b] = (out = "200")]
            /\ IF raises
                 THEN /\ pc' = [pc EXCEPT ![t] = "raised"]
                      /\ UNCHANGED <<crawl_result, all_transport>>
                 ELSE IF is_allowed(rules, url[t])
                 THEN /\ pc' = [pc EXCEPT ![t] = "delay"]
                      /\ UNCHANGED <<crawl_result, all_transport>>
                 ELSE /\ pc' = [pc EXCEPT ![t] = "returned"]
                      /\ crawl_result' = [crawl_result EXCEPT ![t] = ErrRobots]
                      /\ all_transport' = [all_transport EXCEPT ![t] = FALSE]
  /\ UNCHANGED <<respect_robots, config, ages, results_cache, running, args,
                 attempt, idVars, n_crawls, waited, http_out,
                 last_outcome>>

\* ------------------------------------------- crawler/crawler.py: rate limit
\* _respect_crawl_delay, lines 122-128: the sleep, given the age of the entry
SleepTime(age) ==
  IF age # Never /\ crawler_delay - age > 0 THEN crawler_delay - age ELSE 0

\* faulty variant: one entry for every domain
LimiterKeyShared(u) == "site.example"

\* _respect_crawl_delay, line 119: domain = urlparse(url).netloc
LimiterKey(u) == netloc(u)

\* _respect_crawl_delay, lines 117-131
RespectCrawlDelay(t) ==
  /\ running = t
  /\ pc[t] = "delay"
  /\ LET n == LimiterKey(url[t])
         d == SleepTime(domain_last_accessed[n])
     IN /\ domain_last_accessed' = [Aged(domain_last_accessed, d) EXCEPT ![n] = 0]
        /\ since_request' = Aged(since_request, d)
        /\ phase' = (phase + d) % 2
        /\ id_fresh' = IF phase + d >= 2 THEN [u \in Urls |-> FALSE] ELSE id_fresh
        /\ UNCHANGED id_stamp
  /\ pc' = [pc EXCEPT ![t] = "jitter"]
  /\ UNCHANGED <<respect_robots, config, robots, results_cache, running, args,
                 attempt, crawl_result, n_crawls, waited, all_transport, http_out,
                 last_outcome>>

\* ------------------------------------------ crawler/crawler.py: the request
\* crawl(), lines 152-154: time.sleep(random.uniform(0.5, 2.5))
JitterSleep(t, jit) ==
  /\ running = t
  /\ pc[t] = "jitter"
  /\ Elapse(jit)
  /\ pc' = [pc EXCEPT ![t] = "send"]
  /\ UNCHANGED <<respect_robots, config, robots, results_cache, running, args,
                 attempt, crawl_result, n_crawls, waited, all_transport, http_out,
                 last_outcome>>

\* faulty variant: every 200 response is taken for a page
ResponseResultAny200(out) ==
  IF out \in {"200 text/html", "200 other"} THEN Success
  ELSE IF out \in HttpCodes THEN ErrHttp(out)
  ELSE ErrNotHtml

\* lines 195-223: what crawl() returns for a response
ResponseResult(out) ==
  IF out = "200 text/html" THEN Success
  ELSE IF out \in HttpCodes THEN ErrHttp(out)
  ELSE ErrNotHtml

\* faulty variant: a non-200 status raises too, as raise_for_status() would
RaisesOnStatus(out) == out = "transport" \/ out \in HttpCodes

\* line 225: the try block raised a requests.exceptions.RequestException
RaisesRequestException(out) == out = "transport"

\* crawl() holds one session.get (line 188): the HTTP requests made so far in
\* the current call
HttpRequestsInCall(t) == IF http_out[t] = NoRequest THEN 0 ELSE 1

\* crawl(), lines 156-223: session.get starts the page request now; its
\* response is classified, a raised exception goes to a handler
HttpRequest(t, out) ==
  /\ running = t
  /\ pc[t] = "send"
  /\ since_request' = [since_request EXCEPT ![netloc(url[t])] = 0]
  /\ all_transport' = [all_transport EXCEPT ![t] = @ /\ out = "transport"]
  /\ http_out' = [http_out EXCEPT ![t] = out]
  /\ CASE RaisesRequestException(out) ->
            /\ pc' = [pc EXCEPT ![t] = "except_request"]
            /\ UNCHANGED crawl_result
       [] out = "unexpected" ->
            /\ pc' = [pc EXCEPT ![t] = "except_other"]
            /\ UNCHANGED crawl_result
       [] OTHER ->
            /\ pc' = [pc EXCEPT ![t] = "returned"]
            /\ crawl_result' = [crawl_result EXCEPT ![t] = ResponseResult(out)]
  /\ UNCHANGED <<respect_robots, config, robots, domain_last_accessed, results_cache,
                 running, args, attempt, idVars, n_crawls, waited, last_outcome>>

\* faulty variant: use_fallback is not consulted
TriesPlaywrightIfInstalled == playwright_available

\* lines 229-234 and 248-253: asyncio.run(self._fallback_playwright(url)) is
\* reached when fallbacks are enabled and playwright can be imported
TriesPlaywright == use_fallback /\ playwright_available

\* asyncio.run(coro), lines 234 and 253: it raises RuntimeError, before the
\* coroutine starts, when an event loop is running in the calling thread
AsyncioRunRaises == loop_running

\* crawl(), lines 225-262: the two exception handlers.  Without fallback, or
\* without playwright, or when asyncio.run raises (the handler at line 237 or
\* 256 swallows it), crawl() returns the error of the HTTP request.
Fallback(t) ==
  /\ running = t
  /\ pc[t] \in {"except_request", "except_other"}
  /\ IF TriesPlaywright /\ ~AsyncioRunRaises
       THEN /\ pc' = [pc EXCEPT ![t] = "playwright"]
            /\ UNCHANGED crawl_result
       ELSE /\ pc' = [pc EXCEPT ![t] = "returned"]
            /\ crawl_result' = [crawl_result EXCEPT ![t] =
                 IF pc[t] = "except_request" THEN ErrTransport ELSE ErrUnexpected]
  /\ UNCHANGED <<respect_robots, config, robots, ages, results_cache, running, args,
                 attempt, idVars, n_crawls, waited, all_transport, http_out,
                 last_outcome>>

\* _fallback_playwright, lines 272-325: what it returns
PlaywrightResult(out) ==
  IF out = "200" THEN Rendered
  ELSE IF out = "exception" THEN ErrPlaywright
  ELSE ErrHttp(out)

\* faulty variant: a fallback that raised marks the capability as gone
CapabilityLostOnFailure(out) == playwright_available /\ out # "exception"

\* _fallback_playwright, lines 272-325, assigns no field of the crawler:
\* self._playwright_available is what line 48 made it
CapabilityAfterFallback(out) == playwright_available

\* _fallback_playwright run to its end by asyncio.run; crawl() returns its
\* result (lines 234 and 253)
fallback_playwright(t, out) ==
  /\ running = t
  /\ pc[t] = "playwright"
  /\ crawl_result' = [crawl_result EXCEPT ![t] = PlaywrightResult(out)]
  /\ all_transport' = [all_transport EXCEPT ![t] = FALSE]
  /\ pc' = [pc EXCEPT ![t] = "returned"]
  /\ playwright_available' = CapabilityAfterFallback(out)
  /\ UNCHANGED <<respect_robots, settings, poll_response, robots, ages, results_cache, running, args,
                 attempt, idVars, n_crawls, waited, http_out,
                 last_outcome>>

\* ------------------------------------------ api/app.py: the retry loop body
\* "error" in crawl_result, for a result crawl() returned
HasError(res) == res \notin {Success, Rendered}

\* faulty variant: every 4xx status ends the loop
BreaksLoopOn4xx(res) ==
  ~HasError(res) \/ res \in {ErrHttp("403"), ErrHttp("404"), ErrHttp("429")}

\* line 158: "error" not in crawl_result or "HTTP error: 403" in the error
BreaksLoop(res) == ~HasError(res) \/ res = ErrHttp("403")

\* lines 163 and 170: if attempt < max_attempts
SleepsBeforeRetry(a) == a < max_attempts

Pow2(n) == IF n = 0 THEN 1 ELSE IF n = 1 THEN 2 ELSE IF n = 2 THEN 4 ELSE 8

\* faulty variant: linear instead of exponential
BackoffDelayLinear(a, j) == 2 * a + j

\* line 165: (2 ** attempt) + random.uniform(1, 3), in ticks
BackoffDelay(a, j) == 2 * Pow2(a) + j
\* line 171: 2 ** attempt, in ticks
ExceptionDelay(a) == 2 * Pow2(a)

\* time.sleep(d) in process_url, lines 166 and 171
Sleep(t, d) ==
  /\ Elapse(d)
  /\ waited' = [waited EXCEPT ![t] = d]

\* lines 157-166: crawl() returned
HandleResult(t, j) ==
  /\ running = t
  /\ pc[t] = "returned"
  /\ IF BreaksLoop(crawl_result[t])
       THEN /\ pc' = [pc EXCEPT ![t] = "final"]
            /\ j = 2
            /\ Sleep(t, 0)
            /\ UNCHANGED attempt
       ELSE /\ attempt' = [attempt EXCEPT ![t] = @ + 1]
            /\ pc' = [pc EXCEPT ![t] = "loop"]
            /\ IF SleepsBeforeRetry(attempt[t] + 1)
                 THEN Sleep(t, BackoffDelay(attempt[t] + 1, j))
                 ELSE j = 2 /\ Sleep(t, 0)
  /\ http_out' = [http_out EXCEPT ![t] = NoRequest]
  /\ last_outcome' = [last_outcome EXCEPT ![t] = crawl_result[t]]
  /\ UNCHANGED <<respect_robots, config, robots, results_cache, running, args,
                 crawl_result, n_crawls, all_transport>>

\* lines 167-171: crawl() raised; crawl_result keeps its earlier value
HandleException(t) ==
  /\ running = t
  /\ pc[t] = "raised"
  /\ attempt' = [attempt EXCEPT ![t] = @ + 1]
  /\ pc' = [pc EXCEPT ![t] = "loop"]
  /\ IF SleepsBeforeRetry(attempt[t] + 1)
       THEN Sleep(t, ExceptionDelay(attempt[t] + 1))
       ELSE Sleep(t, 0)
  /\ all_transport' = [all_transport EXCEPT ![t] = FALSE]
  /\ http_out' = [http_out EXCEPT ![t] = NoRequest]
  /\ last_outcome' = [last_outcome EXCEPT ![t] = Raised]
  /\ UNCHANGED <<respect_robots, config, robots, results_cache, running, args,
                 crawl_result, n_crawls>>

\* ------------------------------------------- api/app.py: the final result
\* line 175
ErrorMsg(res) == IF res = None THEN "Maximum retry attempts reached" ELSE res

\* faulty variant: a failed record without its error
FailedRecordBare(msg) == [status |-> "failed"]

\* faulty variant: the error is stored but the status is left as it was
FailedRecordProcessing(msg) == [status |-> "processing", error |-> msg]

\* lines 176-179: the record of a failed job
FailedRecord(msg) == [status |-> "failed", error |-> msg]

\* lines 207-222: the record of a completed job
CompletedRecord(data) == [status |-> "completed", data |-> data]

\* lines 186-204: the page_type of the classification.  classify_page gives
\* "unknown" with its own error result; so do the handler at line 190 and
\* the disabled classifier.
PageType(cls) ==
  IF classifier_available /\ cls = "classified" THEN "classified" ELSE "unknown"

\* faulty variant: the error result of the classifier is the error alone
ClassificationBare(cls) ==
  IF classifier_available /\ cls = "error"
    THEN [error |-> "Error classifying content"]
  ELSE [page_type |-> PageType(cls), categories |-> {}, topics |-> {}]

\* lines 186-204 with classifier.py lines 134-193: the classification stored
\* with the result.  Without the classifier it is the note of lines 199-204;
\* classify_page catches its own exceptions and returns the error result of
\* classifier.py lines 186-193.
Classification(cls) ==
  IF ~classifier_available
    THEN [note |-> "Content classification is disabled",
          page_type |-> PageType(cls), categories |-> {}, topics |-> {}]
  ELSE IF cls = "error"
    THEN [error |-> "Error classifying content",
          page_type |-> PageType(cls), categories |-> {}, topics |-> {}]
  ELSE [page_type |-> PageType(cls), categories |-> {"category"},
        topics |-> {"topic"}]

\* faulty variant: the document is rewritten before the extraction
ExtractInputRewritten(res) == "rewritten " \o res

\* line 183: crawl_result["html_content"], the first argument of
\* extract_metadata, is the document as the result holds it; the model names
\* a document by the result that holds it
ExtractInput(res) == res

\* lines 173-229: the final result is stored; the coroutine ends and its
\* arguments and locals go with it.  The metadata is extracted from the
\* document of crawl_result (line 183).
Finalize(t, cls) ==
  /\ running = t
  /\ pc[t] = "final"
  /\ IF crawl_result[t] = None \/ HasError(crawl_result[t])
       THEN /\ cls = "error"
            /\ results_cache' = Put(results_cache, request_id[t],
                                    FailedRecord(ErrorMsg(crawl_result[t])))
       ELSE /\ classifier_available \/ cls = "error"
            /\ results_cache' = Put(results_cache, request_id[t],
                                    CompletedRecord([url |-> url[t],
                                                     metadata |-> ExtractInput(crawl_result[t]),
                                                     classification |-> Classification(cls)]))
  /\ running' = 0
  /\ pc' = [pc EXCEPT ![t] = "done"]
  /\ attempt' = [attempt EXCEPT ![t] = 0]
  /\ crawl_result' = [crawl_result EXCEPT ![t] = None]
  /\ url' = [url EXCEPT ![t] = NoUrl]
  /\ arg_respect' = [arg_respect EXCEPT ![t] = TRUE]
  /\ request_id' = [request_id EXCEPT ![t] = <<0, NoUrl>>]
  /\ n_crawls' = [n_crawls EXCEPT ![t] = 0]
  /\ waited' = [waited EXCEPT ![t] = 0]
  /\ all_transport' = [all_transport EXCEPT ![t] = TRUE]
  /\ last_outcome' = [last_outcome EXCEPT ![t] = None]
  /\ UNCHANGED <<respect_robots, config, robots, ages, idVars, http_out>>

\* ------------------------------------------------------------------ Next
\* The API under any environment: any submissions, any order of the queued
\* background tasks, any outcome of every request.
Next ==
  \/ \E t \in Jobs, u \in Urls, r \in BOOLEAN : crawl_url(t, u, r)
  \/ Idle
  \/ \E t \in Jobs : StartTask(t)
  \/ \E t \in Jobs : LoopTest(t)
  \/ \E t \in Jobs, out \in RobotsOutcomes, raises \in BOOLEAN : IsCrawlable(t, out, raises)
  \/ \E t \in Jobs : RespectCrawlDelay(t)
  \/ \E t \in Jobs, jit \in JitterTicks : JitterSleep(t, jit)
  \/ \E t \in Jobs, out \in HttpOutcomes : HttpRequest(t, out)
  \/ \E t \in Jobs : Fallback(t)
  \/ \E t \in Jobs, j \in BackoffJitterTicks : HandleResult(t, j)
  \/ \E t \in Jobs : HandleException(t)
  \/ \E t \in Jobs, cls \in ClassifyOutcomes : Finalize(t, cls)

Spec == Init /\ [][Next]_vars

\* The steps of the background task of job t, under any outcome of every
\* request, of every robots.txt fetch and of the classification.  The random
\* sleeps take their shortest time: how long a sleep lasts does not matter
\* for whether the task ends.
Process(t) ==
  \/ StartTask(t)
  \/ LoopTest(t)
  \/ \E out \in RobotsOutcomes, raises \in BOOLEAN : IsCrawlable(t, out, raises)
  \/ RespectCrawlDelay(t)
  \/ JitterSleep(t, 1)
  \/ \E out \in HttpOutcomes : HttpRequest(t, out)
  \/ Fallback(t)
  \/ HandleResult(t, 2)
  \/ HandleException(t)
  \/ \E cls \in ClassifyOutcomes : Finalize(t, cls)

\* Submissions at any moment the event loop is free, and the tasks' steps
NextFair ==
  \/ \E t \in Jobs, u \in Urls, r \in BOOLEAN : crawl_url(t, u, r)
  \/ \E t \in Jobs : Process(t)

\* While a background task is pending or running the event loop takes the
\* next step of one (app.py lines 96-101), and every call and every sleep
\* inside process_url returns.
SpecFair == Init /\ [][NextFair]_vars /\ WF_vars(\E t \in Jobs : Process(t))

\* Three polite visits in a calm environment: jobs that respect robots.txt,
\* submitted one after the other; every robots.txt is served or missing,
\* every page is served with 200 text/html, nothing raises.
NextVisits ==
  \/ \E t \in Visits, u \in Urls :
       /\ \A s \in Visits : s < t => pc[s] = "done"
       /\ crawl_url(t, u, TRUE)
  \/ \E t \in Visits : StartTask(t)
  \/ \E t \in Visits : LoopTest(t)
  \/ \E t \in Visits, out \in {"200", "404"} : IsCrawlable(t, out, FALSE)
  \/ \E t \in Visits : RespectCrawlDelay(t)
  \/ \E t \in Visits : JitterSleep(t, 1)
  \/ \E t \in Visits : HttpRequest(t, "200 text/html")
  \/ \E t \in Visits : HandleResult(t, 2)
  \/ \E t \in Visits : Finalize(t, "classified") \/ Finalize(t, "error")

SpecVisits == Init /\ [][NextVisits]_vars

\* --------------------------------------------- crawl() called by a script
\* crawler.py lines 329-331 and tests/test_crawler.py: a crawler constructed
\* by a script, with any flags, playwright installed or not, no event loop
InitCrawl ==
  /\ \E r \in BOOLEAN, f \in BOOLEAN :
       Constructed([delay |-> delay, respect_robots |-> r, use_fallback |-> f])
  /\ playwright_available \in BOOLEAN
  /\ loop_running = FALSE
  /\ classifier_available = FALSE
  /\ InitRest

\* result = crawler.crawl(url), crawler.py line 331: the call
CallCrawl(t, u) ==
  /\ running = 0
  /\ pc[t] = "idle"
  /\ \A s \in Calls : s < t => pc[s] = "done"
  /\ running' = t
  /\ url' = [url EXCEPT ![t] = u]
  /\ pc' = [pc EXCEPT ![t] = "is_crawlable"]
  /\ n_crawls' = [n_crawls EXCEPT ![t] = @ + 1]
  /\ UNCHANGED <<respect_robots, config, robots, ages, results_cache, arg_respect,
                 request_id, attempt, crawl_result, idVars, waited, all_transport,
                 http_out,
                 last_outcome>>

\* crawler.py line 331: crawl() has returned or raised; the script goes on
ReturnCrawl(t) ==
  /\ running = t
  /\ pc[t] \in {"returned", "raised"}
  /\ running' = 0
  /\ pc' = [pc EXCEPT ![t] = "done"]
  /\ url' = [url EXCEPT ![t] = NoUrl]
  /\ crawl_result' = [crawl_result EXCEPT ![t] = None]
  /\ n_crawls' = [n_crawls EXCEPT ![t] = 0]
  /\ all_transport' = [all_transport EXCEPT ![t] = TRUE]
  /\ http_out' = [http_out EXCEPT ![t] = NoRequest]
  /\ UNCHANGED <<respect_robots, config, robots, ages, results_cache, arg_respect,
                 request_id, attempt, idVars, waited, last_outcome>>

\* A script that calls crawl() a few times, under any environment.
NextCrawl ==
  \/ \E t \in Calls, u \in Urls : CallCrawl(t, u)
  \/ Idle
  \/ \E t \in Calls, out \in RobotsOutcomes, raises \in BOOLEAN : IsCrawlable(t, out, raises)
  \/ \E t \in Calls : RespectCrawlDelay(t)
  \/ \E t \in Calls, jit \in JitterTicks : JitterSleep(t, jit)
  \/ \E t \in Calls, out \in HttpOutcomes : HttpRequest(t, out)
  \/ \E t \in Calls : Fallback(t)
  \/ \E t \in Calls, out \in PlaywrightOutcomes : fallback_playwright(t, out)
  \/ \E t \in Calls : ReturnCrawl(t)

SpecCrawl == InitCrawl /\ [][NextCrawl]_vars

\* ------------------------------------------------ api/app.py: get_result
\* the ids a client polls: ids of submissions, and ids never or not yet given
PollIds == {<<n, u>> : n \in 1..2, u \in Urls}
\* the answer raised at line 115: HTTPException(status_code=404, ...)
NotFound == "404 Request ID not found"

\* faulty variant: a job still in progress is not known to the poll
KnownFinished(id) ==
  id \in DOMAIN results_cache /\ results_cache[id].status # "processing"

\* line 114: request_id in results_cache
Known(id) == id \in DOMAIN results_cache

\* lines 114-136: the answer to GET /result/{id}; the fields left at None
\* are left out
Answer(id) ==
  IF ~Known(id) THEN [request_id |-> id, status |-> NotFound]
  ELSE LET result == results_cache[id] IN
    IF result.status = "processing"
      THEN [request_id |-> id, status |-> "processing"]
    ELSE IF result.status = "failed"
      THEN [request_id |-> id, status |-> "failed", error |-> result.error]
    ELSE [request_id |-> id, status |-> "completed", result |-> result.data]

\* GET /result/{request_id}, lines 109-136, handled while the event loop is
\* free
get_result(id) ==
  /\ running = 0
  /\ poll_response' = Answer(id)
  /\ UNCHANGED <<respect_robots, settings, playwright_available, robots, ages,
                 results_cache, running, pc, args, attempt, crawl_result, idVars,
                 n_crawls, waited, all_transport, http_out, last_outcome>>

\* The polite visits of SpecVisits, with a client that polls any id at any
\* moment the server can answer.
NextPoll ==
  \/ NextVisits
  \/ \E id \in PollIds : get_result(id)

SpecPoll == Init /\ [][NextPoll]_vars

\* ------------------------------------------- the crawler, however made
\* The crawler of the API, made from the environment with RESPECT_ROBOTS
\* either way (app.py lines 36-42), or the crawler of a script, made with
\* any choice of arguments (crawler.py lines 329-331, tests/test_crawler.py
\* lines 14 and 21)
InitConfig ==
  /\ \/ /\ loop_running = TRUE
        /\ \E r \in BOOLEAN : Constructed(EnvArgs(r))
     \/ /\ loop_running = FALSE
        /\ \E S \in SUBSET ArgNames, d \in DelayValues, r \in BOOLEAN,
              b \in BOOLEAN, f \in BOOLEAN :
             Constructed(Given([delay |-> d, respect_robots |-> r,
                                browser_emulation |-> b, use_fallback |-> f], S))
  /\ playwright_available = TRUE
  /\ classifier_available = FALSE
  /\ InitRest

\* The API serves polite and impolite visits in a calm environment; the
\* script calls crawl() under any environment.
NextConfig ==
  \/ loop_running /\ NextVisits
  \/ /\ loop_running
     /\ \E t \in Visits, u \in Urls :
          /\ \A s \in Visits : s < t => pc[s] = "done"
          /\ crawl_url(t, u, FALSE)
  \/ ~loop_running /\ NextCrawl

SpecConfig == InitConfig /\ [][NextConfig]_vars

\* =================================================================== claims
\* the task the event loop is running is inside crawl()
InCrawl(t) ==
  pc[t] \in {"is_crawlable", "delay", "jitter", "send", "except_request",
             "except_other", "returned", "raised"}
\* the task is inside process_url
Active(t) == InCrawl(t) \/ pc[t] \in {"loop", "final"}

\* seconds to ticks
Seconds(n) == 2 * n

\* ------------------------------------------------------------------- C1
\* C1: whenever a page request to an origin is about to start, the previous
\* page request to that origin started at least `delay` earlier.
C1_RequestsSpacedByDelay ==
  \A t \in Tasks :
    pc[t] = "send" =>
      \/ since_request[netloc(url[t])] = Never
      \/ since_request[netloc(url[t])] >= delay

\* ------------------------------------------------------------------- C2
\* C2: for every origin, at most one robots.txt fetch is ever issued.
C2_OneRobotsFetchPerOrigin ==
  \A b \in BaseUrls : robots_fetches[b] <= 1

\* a second robots query of a job for an origin whose robots.txt fetch had
\* failed has been answered without another fetch
C2_Witness ==
  \E t \in Tasks :
    /\ pc[t] = "delay" /\ respect_robots /\ n_crawls[t] >= 2
    /\ robots_fetches[base_url(url[t])] = 1
    /\ ~robots_ok[base_url(url[t])]

\* ------------------------------------------------------------------- C3
\* C3: with respect_robots false the robots check lets every URL through,
\* fetches no robots.txt and leaves the robots cache alone, and the crawl of
\* such a job never returns the robots error.
C3_NoRobotsWhenNotRespected ==
  /\ [](\A t \in Tasks : (Active(t) /\ ~arg_respect[t]) => crawl_result[t] # ErrRobots)
  /\ [][\A t \in Tasks :
          (pc[t] = "is_crawlable" /\ ~arg_respect[t] /\ pc'[t] # pc[t]) =>
            /\ pc'[t] = "delay"
            /\ UNCHANGED <<robots_cache, robots_parser, robots_fetches>>]_vars

\* a job that does not respect robots.txt is about to request the disallowed
\* /search page and no robots.txt has ever been fetched
C3_Witness ==
  \E t \in Tasks :
    /\ pc[t] = "send" /\ ~arg_respect[t]
    /\ url[t].path \in RobotsTxt(base_url(url[t]))
    /\ \A b \in BaseUrls : robots_fetches[b] = 0

\* ------------------------------------------------------------------- C4
\* C4: a job that respects robots.txt never sends a page request for a URL
\* that the robots.txt served by the URL's origin disallows.
C4_NoRequestForDisallowedUrl ==
  \A t \in Tasks :
    ~ /\ pc[t] = "send"
      /\ arg_respect[t]
      /\ robots_ok[base_url(url[t])]
      /\ url[t].path \in RobotsTxt(base_url(url[t]))

\* ------------------------------------------------------------------- C5
\* C5: a job whose first attempt is denied by robots.txt makes no backoff
\* wait and does not go back to the retry loop.
C5_RobotsDenialIsTerminal ==
  \A t \in Tasks :
    (n_crawls[t] = 1 /\ crawl_result[t] = ErrRobots) =>
      (pc[t] \in {"returned", "final"} /\ waited[t] = 0)

\* ------------------------------------------------------------------- C6
\* C6: a job all of whose attempts fail with a transport error is Failed
\* after exactly three attempts, and has waited at least 2 s after the first
\* and at least 4 s after the second.
C6_TransportErrorsExhaustAttempts ==
  /\ [](\A t \in Tasks :
          (all_transport[t] /\ n_crawls[t] >= 1) =>
            /\ pc[t] = "final" => n_crawls[t] = 3
            /\ (pc[t] = "loop" /\ attempt[t] = 1) => waited[t] >= Seconds(2)
            /\ (pc[t] = "loop" /\ attempt[t] = 2) => waited[t] >= Seconds(4))
  /\ [][\A t \in Tasks :
          (pc[t] = "final" /\ all_transport[t] /\ n_crawls[t] >= 1 /\ pc'[t] = "done") =>
            results_cache'[request_id[t]].status = "failed"]_vars

\* three attempts, each a transport error, and the job is about to be stored
C6_Witness ==
  \E t \in Tasks :
    pc[t] = "final" /\ all_transport[t] /\ n_crawls[t] = 3 /\ crawl_result[t] = ErrTransport

\* ------------------------------------------------------------------- C7
\* C7: a job whose first attempt returns HTTP 404 makes no backoff wait and
\* does not go back to the retry loop.
C7_Http404IsTerminal ==
  \A t \in Tasks :
    (n_crawls[t] = 1 /\ crawl_result[t] = ErrHttp("404")) =>
      (pc[t] \in {"returned", "final"} /\ waited[t] = 0)

\* ------------------------------------------------------------------- C8
\* C8: a job whose attempt returns 200 with a non-HTML content type makes no
\* backoff wait and does not go back to the retry loop.
C8_NotHtmlIsTerminal ==
  \A t \in Tasks :
    (Active(t) /\ crawl_result[t] = ErrNotHtml) =>
      (pc[t] \in {"returned", "final"} /\ waited[t] = 0)

\* ------------------------------------------------------------------- C9
\* C9: no job calls crawl() more than three times.
C9_AtMostThreeCrawls ==
  \A t \in Tasks : n_crawls[t] <= 3

\* a job has used its three attempts, not all of them transport errors
C9_Witness ==
  \E t \in Tasks :
    pc[t] = "final" /\ n_crawls[t] = 3 /\ attempt[t] = 3 /\ ~all_transport[t]

\* ------------------------------------------------------------------ C10
\* C10: back at the loop test after failed attempt n, the job has waited
\* 2^n + j seconds, 1 <= j <= 3, when n is 1 or 2, and not at all otherwise.
C10_BackoffWithJitter ==
  \A t \in Tasks :
    pc[t] = "loop" =>
      /\ attempt[t] = 1 => waited[t] \in (Seconds(2) + Seconds(1))..(Seconds(2) + Seconds(3))
      /\ attempt[t] = 2 => waited[t] \in (Seconds(4) + Seconds(1))..(Seconds(4) + Seconds(3))
      /\ attempt[t] \notin {1, 2} => waited[t] = 0

\* ------------------------------------------------------------------ C11
\* C11: when a job is stored as failed its error is the error of its last
\* attempt (the retry-budget message is accepted for an attempt that raised),
\* never the error of an earlier attempt, and when its last attempt succeeded
\* it is stored as completed with the result derived from the document of
\* that attempt.
C11_StoresLastAttempt ==
  [][\A t \in Tasks :
       (pc[t] = "final" /\ pc'[t] = "done") =>
         LET rec == results_cache'[request_id[t]] IN
           IF HasError(last_outcome[t])
             THEN /\ rec.status = "failed"
                  /\ \/ rec.error = last_outcome[t]
                     \/ /\ last_outcome[t] = Raised
                        /\ rec.error = "Maximum retry attempts reached"
             ELSE rec.status = "completed" /\ rec.data.metadata = last_outcome[t]]_vars

\* ------------------------------------------------------------------ C12
\* C12: a record that is completed or failed is never changed by any step.
C12_TerminalIsFinal ==
  [][\A id \in DOMAIN results_cache :
       results_cache[id].status \in {"completed", "failed"} =>
         results_cache'[id] = results_cache[id]]_vars

\* ------------------------------------------------------------------ C13
\* C13: a record is created as processing, its status is always one of
\* processing, completed, failed, and a status changes only from processing
\* to completed or from processing to failed.
C13_StatusTransitions ==
  /\ [](\A id \in DOMAIN results_cache :
          results_cache[id].status \in {"processing", "completed", "failed"})
  /\ [][\A id \in DOMAIN results_cache' :
          IF id \notin DOMAIN results_cache
            THEN results_cache'[id].status = "processing"
            ELSE \/ results_cache'[id].status = results_cache[id].status
                 \/ /\ results_cache[id].status = "processing"
                    /\ results_cache'[id].status \in {"completed", "failed"}]_vars

\* ------------------------------------------------------------------ C14
\* C14: every completed record has a result and no error, every failed record
\* has an error and no result.
C14_TerminalRecordShape ==
  \A id \in DOMAIN results_cache :
    LET rec == results_cache[id] IN
      /\ rec.status = "completed" =>
           ("data" \in DOMAIN rec /\ "error" \notin DOMAIN rec)
      /\ rec.status = "failed" =>
           ("error" \in DOMAIN rec /\ "data" \notin DOMAIN rec)

\* a failed record and a completed record are both in the store
C14_Witness ==
  /\ \E id \in DOMAIN results_cache : results_cache[id].status = "failed"
  /\ \E id \in DOMAIN results_cache : results_cache[id].status = "completed"

\* ------------------------------------------------------------------ C15
\* C15: every submitted job is eventually finished by its background task
\* (from some moment on no job is queued or in progress: a finished job
\* stays finished and there are finitely many jobs), and the step that
\* finishes a job leaves its record completed or failed.
C15_EveryJobTerminates ==
  /\ <>[](\A t \in Jobs : pc[t] \in {"idle", "done"})
  /\ [][\A t \in Jobs :
          (pc[t] # "done" /\ pc'[t] = "done") =>
            results_cache'[request_id[t]].status \in {"completed", "failed"}]_vars

\* a job all of whose attempts raised has been stored as failed
C15_Witness ==
  \E t \in Jobs, id \in DOMAIN results_cache :
    /\ pc[t] = "done"
    /\ results_cache[id].status = "failed"
    /\ results_cache[id].error = "Maximum retry attempts reached"

\* ------------------------------------------------------------------ C16
\* C16: after the first HTTP request of a crawl fails at transport level, a
\* second HTTP request is tried before any headless render: the render is
\* never started in a call that has made fewer than two HTTP requests.
C16_SecondHttpBeforeRender ==
  \A t \in Tasks :
    (pc[t] = "playwright" /\ http_out[t] = "transport") => HttpRequestsInCall(t) >= 2

\* ------------------------------------------------------------------ C17
\* C17: within one crawl call, after a response with a non-200 status or a
\* non-HTML content type nothing else is tried: the call returns at once
\* with the error of that response.
C17_NoEscalationOnResponse ==
  \A t \in Tasks :
    http_out[t] \in HttpCodes \cup {"200 other"} =>
      /\ pc[t] = "returned"
      /\ crawl_result[t] =
           IF http_out[t] = "200 other" THEN ErrNotHtml ELSE ErrHttp(http_out[t])

\* a call with the render fallback ready has got a 500 and is returning it
C17_Witness ==
  \E t \in Tasks :
    /\ pc[t] = "returned" /\ http_out[t] = "500"
    /\ use_fallback /\ playwright_available /\ ~loop_running
    /\ crawl_result[t] = ErrHttp("500")

\* ------------------------------------------------------------------ C18
\* C18: the headless render is started only after the HTTP request failed
\* at transport level, with the fallback enabled and the capability present.
C18_RenderOnlyAfterTransportError ==
  \A t \in Tasks :
    pc[t] = "playwright" =>
      (http_out[t] = "transport" /\ use_fallback /\ playwright_available)

\* ------------------------------------------------------------------ C19
\* C19: when the capability is absent or the fallback is disabled and the
\* HTTP request fails at transport level, the render is not started and the
\* call returns the transport error of the HTTP request.
C19_SilentSkipWithoutRender ==
  \A t \in Tasks :
    (http_out[t] = "transport" /\ ~(use_fallback /\ playwright_available)) =>
      /\ pc[t] \in {"except_request", "returned"}
      /\ pc[t] = "returned" => crawl_result[t] = ErrTransport

\* fallback enabled, playwright not installed: the transport error is returned
C19_Witness ==
  \E t \in Tasks :
    /\ pc[t] = "returned" /\ http_out[t] = "transport"
    /\ use_fallback /\ ~playwright_available
    /\ crawl_result[t] = ErrTransport

\* ------------------------------------------------------------------ C20
\* C20: once the robots.txt fetch of an origin has failed or returned a
\* non-200 status, no URL of that origin is ever denied by the robots check.
C20_AllowAllAfterFailedFetch ==
  \A t \in Tasks :
    LET b == base_url(url[t]) IN
      (Active(t) /\ robots_fetches[b] >= 1 /\ ~robots_ok[b]) =>
        crawl_result[t] # ErrRobots

\* ------------------------------------------------------------------ C21
\* C21: the robots check answers false for a URL only if the robots.txt of
\* the URL's own origin was served with status 200 and its rules disallow the
\* path of the URL.
C21_DenialOnlyByOwnRules ==
  \A t \in Tasks :
    (pc[t] = "returned" /\ crawl_result[t] = ErrRobots) =>
      /\ robots_ok[base_url(url[t])]
      /\ ~is_allowed(ParseRules(RobotsTxt(base_url(url[t]))), url[t])

\* ------------------------------------------------------------------ C22
\* _is_crawlable, lines 114-115, on a cache hit (lines 85-86): the answer for
\* a URL whose origin has an entry in robots_cache
CachedAnswer(u) == is_allowed(robots_parser, u)

\* C22: the answer of the robots check for a URL of an origin that has a
\* cached policy is not changed by a robots.txt fetch made for another origin.
C22_PolicyNeverChanges ==
  [][\A b \in BaseUrls :
       robots_fetches'[b] # robots_fetches[b] =>
         \A u \in Urls :
           (base_url(u) # b /\ CacheHit(base_url(u))) =>
             CachedAnswer(u)' = CachedAnswer(u)]_vars

\* ------------------------------------------------------------------ C23
\* crawl(): the call in progress is past line 149, the call of
\* _respect_crawl_delay.  A call that returned the robots error left at line
\* 146, before it.
LimiterPassed(t) ==
  \/ pc[t] \in {"jitter", "send", "except_request", "except_other", "playwright"}
  \/ pc[t] = "returned" /\ crawl_result[t] # ErrRobots

\* C23: in every attempt the robots check, and the robots.txt fetch it may
\* make, come after the rate-limiter wait of that attempt.
C23_LimiterBeforeRobots ==
  [][\A t \in Tasks :
       ( \/ pc[t] = "is_crawlable" /\ pc'[t] # "is_crawlable"
         \/ running = t /\ robots_fetches' # robots_fetches )
         => LimiterPassed(t)]_vars

\* ------------------------------------------------------------------ C24
\* the task is at a blocking call: time.sleep in _respect_crawl_delay
\* (crawler.py line 128) or in crawl() (line 154), session.get (line 188), or
\* the backoff time.sleep of process_url (app.py line 166)
Suspended(t) ==
  \/ pc[t] = "delay" /\ SleepTime(domain_last_accessed[netloc(url[t])]) > 0
  \/ pc[t] \in {"jitter", "send"}
  \/ /\ pc[t] = "returned"
     /\ ~BreaksLoop(crawl_result[t])
     /\ SleepsBeforeRetry(attempt[t] + 1)

\* C24: while one job is suspended in the rate-limiter wait, in a fetch or in
\* a backoff sleep, a queued or running job for another origin can take its
\* next step.
C24_OtherOriginsNotBlocked ==
  \A s \in Jobs, t \in Jobs :
    ( /\ s # t
      /\ Suspended(s)
      /\ pc[t] \notin {"idle", "done"}
      /\ netloc(url[s]) # netloc(url[t]) )
      => ENABLED Process(t)

\* ------------------------------------------------------------------ C25
\* the call has arrived at _respect_crawl_delay (crawler.py line 149) and
\* its page request (line 188) has not started yet
AtLimiter(t) == pc[t] \in {"delay", "jitter", "send"}

\* C25: jobs for the same origin pass the rate limiter one at a time and in
\* the order of their arrival: while one job is between its arrival at the
\* limiter and the start of its request, no other job for that origin has
\* arrived at the limiter, so none can overtake it.
C25_LimiterOneAtATime ==
  \A s \in Tasks, t \in Tasks :
    (s # t /\ AtLimiter(s) /\ AtLimiter(t)) => netloc(url[s]) # netloc(url[t])

\* a job has passed the limiter for its second attempt and is about to start
\* its request, while another job for the same origin is still queued
C25_Witness ==
  \E s \in Tasks, t \in Tasks :
    /\ pc[s] = "queued" /\ pc[t] = "send" /\ n_crawls[t] = 2
    /\ netloc(url[s]) = netloc(url[t])

\* ------------------------------------------------------------------ C26
\* C26: every robots check of a job is governed by the respect_robots setting
\* the job was submitted with, whatever the settings of the other jobs: while
\* a job is inside crawl() the crawler's flag is the job's own setting, and a
\* job submitted with respect_robots=true passes the robots check only with
\* the consent of the cached robots policy.
C26_OwnRobotsSetting ==
  /\ [](\A t \in Jobs : InCrawl(t) => respect_robots = arg_respect[t])
  /\ [][\A t \in Jobs :
          (pc[t] = "is_crawlable" /\ arg_respect[t] /\ pc'[t] = "delay") =>
            (CacheHit(base_url(url[t])) /\ CachedAnswer(url[t]))']_vars

\* a job submitted with respect_robots=true has been denied a URL that a job
\* submitted with respect_robots=false has crawled to completion
C26_Witness ==
  \E t \in Jobs :
    /\ pc[t] = "returned" /\ arg_respect[t] /\ crawl_result[t] = ErrRobots
    /\ \E id \in DOMAIN results_cache :
         /\ results_cache[id].status = "completed"
         /\ results_cache[id].data.url = url[t]

\* ------------------------------------------------------------------ C27
\* line 196: response.status_code of the response `out`
StatusCode(out) == IF out \in HttpCodes THEN out ELSE "200"
\* line 204: response.headers.get('Content-Type', '').lower()
ContentType(out) ==
  IF out = "200 text/html" THEN "text/html; charset=utf-8" ELSE "application/json"
\* line 207: 'text/html' in content_type
ContainsTextHtml(ct) == ct \in {"text/html", "text/html; charset=utf-8"}
\* line 217: response.text, the body of the HTTP response
ResponseText == "response.text"
\* line 310: await page.content(), the body of the rendered page
PageContent == "page.content()"

\* The dict crawl() returns, key by key, for the result `res` of a call whose
\* page request ended with `out`: lines 146, 197-201, 208-211, 213-220,
\* 240-243, 259-262 of crawl() and lines 301-304, 314-321, 325 of
\* _fallback_playwright.
ResultDict(res, out) ==
  IF res = Success
    THEN [url |-> "url", status_code |-> StatusCode(out),
          content_type |-> ContentType(out), html_content |-> ResponseText,
          headers |-> "dict(response.headers)", timestamp |-> "time.time()"]
  ELSE IF res = Rendered
    THEN [url |-> "url", status_code |-> "200", content_type |-> "text/html",
          html_content |-> PageContent, headers |-> "Content-Type: text/html",
          timestamp |-> "time.time()"]
  ELSE IF res = ErrRobots
    THEN [error |-> res]
  ELSE IF out \in HttpCodes
    THEN [error |-> res, url |-> "url",
          response_headers |-> "dict(response.headers)"]
  ELSE [error |-> res, url |-> "url"]

\* the dict has the shape of a success
IsSuccess(d) ==
  /\ {"html_content", "status_code", "content_type", "headers", "timestamp"}
       \subseteq DOMAIN d
  /\ "error" \notin DOMAIN d
\* the dict has the shape of a failure
IsFailure(d) == "error" \in DOMAIN d /\ "html_content" \notin DOMAIN d

\* C27: every dict a crawl() call returns is a success or a failure, never
\* both and never neither, and a success has status code 200 and a content
\* type containing text/html.
C27_SuccessXorFailure ==
  \A t \in Tasks :
    pc[t] = "returned" =>
      LET d == ResultDict(crawl_result[t], http_out[t]) IN
        /\ IsSuccess(d) # IsFailure(d)
        /\ IsSuccess(d) =>
             (d.status_code = "200" /\ ContainsTextHtml(d.content_type))

\* a call has returned the page rendered by the fallback, and an earlier call
\* has returned too
C27_Witness ==
  \E t \in Tasks :
    /\ pc[t] = "returned" /\ crawl_result[t] = Rendered
    /\ \E s \in Tasks : pc[s] = "done"

\* ------------------------------------------------------------------ C28
\* the body returned by the strategy that ended the call: the HTTP response
\* (line 217) when the page request got a response, the rendered page (line
\* 310) when it raised and the fallback ran
StrategyBody(out) ==
  IF RaisesRequestException(out) \/ out = "unexpected" THEN PageContent
  ELSE ResponseText

C29_TransportFailureResult ==
  \A t \in Tasks :
    http_out[t] = "transport" =>
      /\ pc[t] # "raised"
      /\ (pc[t] = "returned" /\ ~TriesPlaywright) => crawl_result[t] = ErrTransport
      /\ (pc[t] = "returned" /\ TriesPlaywright /\ HasError(crawl_result[t])) =>
           crawl_result[t] \in
             {PlaywrightResult(o) : o \in PlaywrightOutcomes \ {"200"}}

\* ------------------------------------------------------------------ C30
\* process_url is between two attempts: at the loop test of line 152 after a
\* failed attempt, with attempts left
BetweenAttempts(t) ==
  pc[t] = "loop" /\ attempt[t] > 0 /\ LoopContinues(attempt[t])

\* C30: a job can be cancelled between attempts: whenever the job is at the
\* loop test after a failed attempt with attempts left, it has a step that
\* ends the retry loop without starting another attempt.
C30_CancellableBetweenAttempts ==
  \A t \in Jobs :
    BetweenAttempts(t) => ENABLED (Process(t) /\ pc'[t] = "final")

\* ------------------------------------------------------------------ C31
\* C31: a crawler constructed without an argument has delay 1.0,
\* respect_robots true, browser_emulation true and use_fallback true for
\* that argument, and an argument that was passed is the field's value; the
\* fields keep these values, except respect_robots, which every API job sets
\* to the value of its request and which governs the robots checks of that
\* job whatever the environment gave.
C31_DefaultsAndOverride ==
  /\ crawler_delay = IF "delay" \in DOMAIN ctor THEN ctor.delay ELSE Seconds(1)
  /\ browser_emulation =
       IF "browser_emulation" \in DOMAIN ctor THEN ctor.browser_emulation ELSE TRUE
  /\ use_fallback =
       IF "use_fallback" \in DOMAIN ctor THEN ctor.use_fallback ELSE TRUE
  /\ (~loop_running \/ \A t \in Visits : pc[t] \in {"idle", "queued"}) =>
       respect_robots =
         IF "respect_robots" \in DOMAIN ctor THEN ctor.respect_robots ELSE TRUE
  /\ loop_running =>
       \A t \in Visits : InCrawl(t) => respect_robots = arg_respect[t]

\* a job of the API is inside crawl() under the respect_robots value of its
\* request, which is not the value the environment gave to the constructor
C31_Witness ==
  \E t \in Visits :
    /\ InCrawl(t) /\ loop_running
    /\ arg_respect[t] # ctor.respect_robots
    /\ respect_robots = arg_respect[t]

\* ------------------------------------------------------------------ C32
\* the retriable results of crawl(): the error of a transport failure, a 5xx
\* status, the status 429
Retriable == {ErrTransport, ErrHttp("500"), ErrHttp("429")}

\* C32: when an attempt before the third ends with a retriable result, the
\* job waits the backoff and goes back to the loop test, from where it starts
\* the next attempt; and a job that stops with an error before its third
\* attempt has not stopped on a retriable result.
C32_RetriableIsRetried ==
  /\ [][\A t \in Jobs :
          ( /\ pc[t] = "returned" /\ pc'[t] # "returned"
            /\ crawl_result[t] \in Retriable
            /\ n_crawls[t] < max_attempts ) =>
            (pc'[t] = "loop" /\ waited'[t] > 0 /\ LoopContinues(attempt'[t]))]_vars
  /\ [][\A t \in Jobs :
          ( /\ pc[t] = "loop" /\ pc'[t] # "loop"
            /\ attempt[t] > 0 /\ n_crawls[t] < max_attempts ) =>
            (pc'[t] = "is_crawlable" /\ n_crawls'[t] = n_crawls[t] + 1)]_vars
  /\ [](\A t \in Jobs :
          (pc[t] = "final" /\ n_crawls[t] < max_attempts) =>
            crawl_result[t] \notin Retriable)

\* the second attempt of a job has started after the first got a 429
C32_Witness ==
  \E t \in Jobs :
    /\ pc[t] = "is_crawlable" /\ n_crawls[t] = 2
    /\ crawl_result[t] = ErrHttp("429") /\ waited[t] = 0

\* ------------------------------------------------------------------ C33
\* this step assigns domain_last_accessed[n]: the entry appears, or the
\* instant it holds becomes more recent (the passing of time only makes it
\* older)
Written(n) ==
  \/ domain_last_accessed[n] = Never /\ domain_last_accessed'[n] # Never
  \/ domain_last_accessed'[n] < domain_last_accessed[n]

\* C33: an entry of the rate-limit state is written only by a step of the
\* rate limiter made for a URL of that entry's own domain, and the step of a
\* crawl that the robots check denies leaves the rate-limit state as it is.
C33_RateLimitStateFrame ==
  /\ [][\A n \in Netlocs :
          Written(n) =>
            \E t \in Tasks :
              pc[t] = "delay" /\ pc'[t] = "jitter" /\ netloc(url[t]) = n]_vars
  /\ [][\A t \in Tasks :
          (pc[t] = "is_crawlable" /\ pc'[t] = "returned") =>
            UNCHANGED domain_last_accessed]_vars

\* a crawl has been denied by the robots check: its own domain has no entry,
\* while the domain of an earlier job has one
C33_Witness ==
  \E t \in Tasks :
    /\ pc[t] = "returned" /\ crawl_result[t] = ErrRobots
    /\ domain_last_accessed[netloc(url[t])] = Never
    /\ \E n \in Netlocs : domain_last_accessed[n] # Never

\* ------------------------------------------------------------------ C34
\* C34: the render-capability flag keeps, in every step, the value the
\* constructor gave it.
C34_CapabilityFixed ==
  [][playwright_available' = playwright_available]_vars

\* a render fallback has failed with an exception, an earlier call has
\* returned, and the flag still says that playwright is installed
C34_Witness ==
  \E t \in Tasks :
    /\ pc[t] = "returned" /\ crawl_result[t] = ErrPlaywright
    /\ playwright_available
    /\ \E s \in Tasks : pc[s] = "done"

\* ------------------------------------------------------------------ C35
\* C35: a submission stores its record under an id that has no record yet,
\* and two jobs that are both submitted and not yet finished never hold the
\* same id.
C35_FreshJobId ==
  /\ [][\A t \in Jobs :
          (pc[t] = "idle" /\ pc'[t] = "queued") =>
            request_id'[t] \notin DOMAIN results_cache]_vars
  /\ [](\A s \in Jobs, t \in Jobs :
          (s # t /\ pc[s] \notin {"idle", "done"} /\ pc[t] \notin {"idle", "done"})
            => request_id[s] # request_id[t])

\* ------------------------------------------------------------------ C36
\* C36: a poll leaves the job store as it is; its answer for an id that has
\* a record is the record's status, with the error exactly when failed and
\* the result exactly when completed, and for any other id the not-found
\* error; and an id that has a record never loses it.
C36_PollReadsOnly ==
  /\ [][poll_response' # poll_response =>
          LET a == poll_response'
              id == a.request_id
          IN /\ results_cache' = results_cache
             /\ IF id \in DOMAIN results_cache
                  THEN /\ a.status = results_cache[id].status
                       /\ ("error" \in DOMAIN a) = (a.status = "failed")
                       /\ ("result" \in DOMAIN a) = (a.status = "completed")
                       /\ a.status = "failed" => a.error = results_cache[id].error
                       /\ a.status = "completed" => a.result = results_cache[id].data
                  ELSE a.status = NotFound]_vars
  /\ [][DOMAIN results_cache \subseteq DOMAIN results_cache']_vars
  /\ [](\A t \in Visits :
          pc[t] \notin {"idle", "done"} => request_id[t] \in DOMAIN results_cache)

\* the last poll was answered "failed", with the robots error, for the id of
\* a finished job, while a later job is queued
C36_Witness ==
  /\ poll_response.status = "failed"
  /\ poll_response.error = ErrRobots
  /\ results_cache[poll_response.request_id].status = "failed"
  /\ \E t \in Visits : pc[t] = "queued"

\* ------------------------------------------------------------------ C37
\* C37: a job whose fetch succeeded ends completed whatever the classifier
\* does, and when the classifier is unavailable or has failed the stored
\* classification has page_type unknown and no categories and no topics.
C37_ClassifierNeverFailsJob ==
  [][\A t \in Jobs :
       (pc[t] = "final" /\ pc'[t] = "done" /\ ~HasError(crawl_result[t])) =>
         LET rec == results_cache'[request_id[t]] IN
           /\ rec.status = "completed"
           /\ LET c == rec.data.classification IN
                (~classifier_available \/ "error" \in DOMAIN c) =>
                  /\ {"page_type", "categories", "topics"} \subseteq DOMAIN c
                  /\ c.page_type = "unknown"
                  /\ c.categories = {} /\ c.topics = {}]_vars

\* the result store holds a completed record whose classification is the
\* error result of the classifier
C37_Witness ==
  /\ classifier_available
  /\ \E id \in DOMAIN results_cache :
       /\ results_cache[id].status = "completed"
       /\ "error" \in DOMAIN results_cache[id].data.classification

====
